---- MODULE Spec2Model ----
(***************************************************************************)
(* Jogo das cadeiras (musical chairs): NUM_JOGADORES player threads        *)
(* (Jogador::joga) and one coordinator thread (Coordenador::iniciar_jogo)  *)
(* synchronised by the counting semaphore cadeira_sem, the mutex           *)
(* music_mutex, the condition variable music_cv and the two atomic flags   *)
(* musica_parada and jogo_ativo (src/src/main.cpp).                        *)
(*                                                                         *)
(* Granularity.  One step is one access to a shared object.  A critical    *)
(* section on music_mutex that touches nothing but musica_parada (the two  *)
(* wait loops of joga, comecar_musica, parar_musica) is one step, taken    *)
(* when the mutex is free: musica_parada is written only with the mutex    *)
(* held.  The coordinator touches the seats without the mutex, so          *)
(* pegar_cadeira and esvaziar_cadeiras advance one seat per step.          *)
(*                                                                         *)
(* The vector cadeiras_ is its storage (cadeiras_buf, which pop_back       *)
(* leaves in place) and its size (cadeiras_size): a range-for that began   *)
(* before a pop_back still walks to the old end.                           *)
(*                                                                         *)
(* add_jogador_eliminado runs with no lock: push_back is two steps, the    *)
(* load of the end of jogadores_eliminados_ and the store of the element   *)
(* and of the new end.                                                     *)
(***************************************************************************)
EXTENDS Integers, Sequences, FiniteSets, TLC

\* constexpr int NUM_JOGADORES = 4
NUM_JOGADORES == 4

\* bounds of the inputs of the sequential specification of esvaziar_cadeiras
MaxCadeiras == 3
MaxEliminados == 1

Jogadores == 1..NUM_JOGADORES

\* music_mutex is free (otherwise: the id of the player that holds it)
LIVRE == 0

VARIABLES
    pc,                     \* position of each player thread in Jogador::joga
    cpc,                    \* position of the coordinator in iniciar_jogo
    sem,                    \* counter of cadeira_sem
    lido,                   \* try_acquire: the counter value it loaded (0: none)
    mutex,                  \* owner of music_mutex
    musica_parada,          \* std::atomic<bool> musica_parada
    jogo_ativo,             \* std::atomic<bool> jogo_ativo
    num_jogadores_,         \* JogoDasCadeiras::num_jogadores_
    cadeiras_buf,           \* storage of cadeiras_: the occupant id of each slot
    cadeiras_size,          \* cadeiras_.size()
    jogadores_eliminados_,  \* JogoDasCadeiras::jogadores_eliminados_
    it,                     \* pegar_cadeira: slot its range-for is at (0: not running)
    fim,                    \* pegar_cadeira: end() taken when its range-for began
    cit,                    \* esvaziar_cadeiras: slot its range-for is at (0: not running)
    vencedor,               \* value get_id_vencedor() returned (-1: not called)
    rodada,                 \* history: number of parar_musica calls so far
    visto,                  \* history: the rodada whose stop a racing player saw (0: not racing)
    elim_rodada,            \* history: elimination branches taken since the last parar_musica
    num_antes,              \* history: num_jogadores_ at the last parar_musica
    chamadas,               \* history: calls of esvaziar_cadeiras (sequential specification)
    log_fim                 \* push_back: the size of jogadores_eliminados_ it loaded (0: not running)

vars == <<pc, cpc, sem, lido, mutex, musica_parada, jogo_ativo, num_jogadores_,
          cadeiras_buf, cadeiras_size, jogadores_eliminados_, it, fim, cit,
          vencedor, rodada, visto, elim_rodada, num_antes, chamadas, log_fim>>

\* the vector cadeiras_ as the program sees it
cadeiras_ == SubSeq(cadeiras_buf, 1, cadeiras_size)

----------------------------------------------------------------------------
(* JogoDasCadeiras: the operations on the game state                       *)

\* JogoDasCadeiras::JogoDasCadeiras: num_jogadores-1 unoccupied seats
Construtor(n) == [i \in 1..(n - 1) |-> 0]

\* body of the loop of esvaziar_cadeiras without the reference: a copy is cleared
EsvaziarPassoCopia(buf, i) == buf

\* body of the loop of esvaziar_cadeiras: cadeira.set_id_jogador(0)
EsvaziarPasso(buf, i) == [buf EXCEPT ![i] = 0]

RECURSIVE EsvaziarDe(_, _, _)
EsvaziarDe(buf, i, n) ==
    IF i > n THEN buf ELSE EsvaziarDe(EsvaziarPasso(buf, i), i + 1, n)

\* esvaziar_cadeiras() run to its end on a vector of n seats
esvaziar_cadeiras(buf, n) == EsvaziarDe(buf, 1, n)

\* add_jogador_eliminado: jogadores_eliminados_.push_back(id_jogador)
add_jogador_eliminado(log, id) == Append(log, id)

----------------------------------------------------------------------------
(* music_cv and the two wait loops of Jogador::joga                        *)

\* the wait for the music to stop with "if" in place of "while": a thread that
\* wait() has returned to goes on without testing musica_parada again
ContinuaEsperandoPararUmaVez(p) == ~musica_parada /\ pc[p] # "relock_parar"

\* while (!musica_parada) music_cv.wait(music_lock);
ContinuaEsperandoParar(p) == ~musica_parada

\* while (musica_parada) music_cv.wait(music_lock);
ContinuaEsperandoTocar(p) == musica_parada

\* music_cv.notify_all(): every thread blocked in wait() is woken and must
\* take music_mutex again before wait() returns
NotifyAll(f) ==
    [p \in Jogadores |->
        CASE f[p] = "wait_parar" -> "relock_parar"
          [] f[p] = "wait_tocar" -> "relock_tocar"
          [] OTHER -> f[p]]

----------------------------------------------------------------------------
(* Initial state: main() has built jogo(NUM_JOGADORES) and the threads     *)

Init ==
    /\ pc = [p \in Jogadores |-> "topo"]
    /\ cpc = "c_topo"
    /\ sem = NUM_JOGADORES - 1
    /\ lido = 0
    /\ mutex = LIVRE
    /\ musica_parada = FALSE
    /\ jogo_ativo = TRUE
    /\ num_jogadores_ = NUM_JOGADORES
    /\ cadeiras_buf = Construtor(NUM_JOGADORES)
    /\ cadeiras_size = NUM_JOGADORES - 1
    /\ jogadores_eliminados_ = <<>>
    /\ it = 0
    /\ fim = 0
    /\ cit = 0
    /\ vencedor = -1
    /\ rodada = 0
    /\ visto = [p \in Jogadores |-> 0]
    /\ elim_rodada = 0
    /\ num_antes = NUM_JOGADORES
    /\ chamadas = 0
    /\ log_fim = [p \in Jogadores |-> 0]

----------------------------------------------------------------------------
(* Jogador::joga, one player thread p                                      *)

\* while (jogo_ativo)
Topo(p) ==
    /\ pc[p] = "topo"
    /\ pc' = [pc EXCEPT ![p] = IF jogo_ativo THEN "lock_parar" ELSE "fim"]
    /\ UNCHANGED <<cpc, sem, lido, mutex, musica_parada, jogo_ativo,
                   num_jogadores_, cadeiras_buf, cadeiras_size,
                   jogadores_eliminados_, it, fim, cit, vencedor, rodada, visto, elim_rodada, num_antes, chamadas, log_fim>>

\* unique_lock music_lock(music_mutex); while (!musica_parada) wait; unlock.
\* Entered from the constructor of the lock, or from wait() taking the mutex
\* again after a wakeup; wait() releases the mutex as it blocks.
EsperaParar(p) ==
    /\ pc[p] \in {"lock_parar", "relock_parar"}
    /\ mutex = LIVRE
    /\ pc' = [pc EXCEPT ![p] =
                IF ContinuaEsperandoParar(p) THEN "wait_parar" ELSE "acquire"]
    /\ visto' = [visto EXCEPT ![p] = IF ContinuaEsperandoParar(p) THEN @ ELSE rodada]
    /\ UNCHANGED <<cpc, sem, lido, mutex, musica_parada, jogo_ativo,
                   num_jogadores_, cadeiras_buf, cadeiras_size,
                   jogadores_eliminados_, it, fim, cit, vencedor, rodada, elim_rodada, num_antes, chamadas, log_fim>>

\* tentar_ocupar_cadeira: cadeira_sem.acquire() blocks while the counter is 0
Acquire(p) ==
    /\ pc[p] = "acquire"
    /\ sem > 0
    /\ sem' = sem - 1
    /\ pc' = [pc EXCEPT ![p] = "lock_pegar"]
    /\ UNCHANGED <<cpc, lido, mutex, musica_parada, jogo_ativo,
                   num_jogadores_, cadeiras_buf, cadeiras_size,
                   jogadores_eliminados_, it, fim, cit, vencedor, rodada, visto, elim_rodada, num_antes, chamadas, log_fim>>

\* tentar_ocupar_cadeira: music_mutex.lock(), and pegar_cadeira begins its
\* range-for: begin() and end() of cadeiras_ are taken once
LockPegar(p) ==
    /\ pc[p] = "lock_pegar"
    /\ mutex = LIVRE
    /\ mutex' = p
    /\ it' = 1
    /\ fim' = cadeiras_size
    /\ pc' = [pc EXCEPT ![p] = "pegar"]
    /\ UNCHANGED <<cpc, sem, lido, musica_parada, jogo_ativo,
                   num_jogadores_, cadeiras_buf, cadeiras_size,
                   jogadores_eliminados_, cit, vencedor, rodada, visto, elim_rodada, num_antes, chamadas, log_fim>>

\* pegar_cadeira: one turn of the loop over the seats; at its end
\* music_mutex.unlock() and the branch of joga on the value returned
PegarPasso(p) ==
    /\ pc[p] = "pegar"
    /\ mutex = p
    /\ IF it > fim
       THEN \* no unoccupied seat: pegar_cadeira returns false
            /\ pc' = [pc EXCEPT ![p] = "add"]
            /\ mutex' = LIVRE
            /\ it' = 0
            /\ fim' = 0
            /\ elim_rodada' = elim_rodada + 1
            /\ visto' = [visto EXCEPT ![p] = 0]
            /\ UNCHANGED cadeiras_buf
       ELSE IF cadeiras_buf[it] = 0
       THEN \* the seat is taken: pegar_cadeira returns true
            /\ cadeiras_buf' = [cadeiras_buf EXCEPT ![it] = p]
            /\ pc' = [pc EXCEPT ![p] = "lock_tocar"]
            /\ mutex' = LIVRE
            /\ it' = 0
            /\ fim' = 0
            /\ visto' = [visto EXCEPT ![p] = 0]
            /\ UNCHANGED elim_rodada
       ELSE /\ it' = it + 1
            /\ UNCHANGED <<pc, mutex, fim, cadeiras_buf, elim_rodada, visto>>
    /\ UNCHANGED <<cpc, sem, lido, musica_parada, jogo_ativo,
                   num_jogadores_, cadeiras_size,
                   jogadores_eliminados_, cit, vencedor, rodada, num_antes, chamadas, log_fim>>

\* music_lock.lock(); while (musica_parada) wait; unlock.
EsperaTocar(p) ==
    /\ pc[p] \in {"lock_tocar", "relock_tocar"}
    /\ mutex = LIVRE
    /\ pc' = [pc EXCEPT ![p] =
                IF ContinuaEsperandoTocar(p) THEN "wait_tocar" ELSE "topo"]
    /\ UNCHANGED <<cpc, sem, lido, mutex, musica_parada, jogo_ativo,
                   num_jogadores_, cadeiras_buf, cadeiras_size,
                   jogadores_eliminados_, it, fim, cit, vencedor, rodada, visto, elim_rodada, num_antes, chamadas, log_fim>>

\* jogador->jogo_.add_jogador_eliminado(jogador->id_), no lock held: push_back
\* first loads the end of the vector (its size and storage)
AddCarrega(p) ==
    /\ pc[p] = "add"
    /\ log_fim' = [log_fim EXCEPT ![p] = Len(jogadores_eliminados_)]
    /\ pc' = [pc EXCEPT ![p] = "add_guarda"]
    /\ UNCHANGED <<cpc, sem, lido, mutex, musica_parada, jogo_ativo,
                   num_jogadores_, cadeiras_buf, cadeiras_size,
                   jogadores_eliminados_, it, fim, cit, vencedor, rodada, visto,
                   elim_rodada, num_antes, chamadas>>

\* push_back then stores the id at the end it loaded and the new end; return.
\* When another player's push_back completed in between (a data race, undefined
\* behaviour), the vector becomes what this thread computed, the other entry
\* lost, or the process dies (both threads free the same storage when the
\* vector has to grow).
AddEliminado(p) ==
    /\ pc[p] = "add_guarda"
    /\ log_fim' = [log_fim EXCEPT ![p] = 0]
    /\ \/ /\ jogadores_eliminados_' =
                add_jogador_eliminado(SubSeq(jogadores_eliminados_, 1, log_fim[p]), p)
          /\ pc' = [pc EXCEPT ![p] = "eliminado"]
          /\ UNCHANGED cpc
       \/ /\ Len(jogadores_eliminados_) # log_fim[p]
          /\ pc' = [q \in Jogadores |-> "morto"]
          /\ cpc' = "c_morto"
          /\ UNCHANGED jogadores_eliminados_
    /\ UNCHANGED <<sem, lido, mutex, musica_parada, jogo_ativo,
                   num_jogadores_, cadeiras_buf, cadeiras_size,
                   it, fim, cit, vencedor, rodada, visto, elim_rodada, num_antes, chamadas>>

\* music_cv.wait may return without a notification (spurious wakeup)
AcordaEspurio(p) ==
    /\ pc[p] \in {"wait_parar", "wait_tocar"}
    /\ pc' = [pc EXCEPT ![p] =
                IF pc[p] = "wait_parar" THEN "relock_parar" ELSE "relock_tocar"]
    /\ UNCHANGED <<cpc, sem, lido, mutex, musica_parada, jogo_ativo,
                   num_jogadores_, cadeiras_buf, cadeiras_size,
                   jogadores_eliminados_, it, fim, cit, vencedor, rodada, visto, elim_rodada, num_antes, chamadas, log_fim>>

\* the steps of player p that the scheduler owes it
JogadorPasso(p) ==
    \/ Topo(p)
    \/ EsperaParar(p)
    \/ Acquire(p)
    \/ LockPegar(p)
    \/ PegarPasso(p)
    \/ EsperaTocar(p)
    \/ AddCarrega(p)
    \/ AddEliminado(p)

----------------------------------------------------------------------------
(* Coordenador::iniciar_jogo, the coordinator thread                       *)

\* the loop of iniciar_jogo without its test of jogo_ativo: the coordinator
\* starts another round after the game is over
CTopoSemTeste ==
    /\ cpc = "c_topo"
    /\ IF num_jogadores_ < NUM_JOGADORES THEN cpc' = "c_esvaziar" /\ cit' = 1
       ELSE cpc' = "c_parar" /\ UNCHANGED cit
    /\ UNCHANGED <<pc, sem, lido, mutex, musica_parada, jogo_ativo,
                   num_jogadores_, cadeiras_buf, cadeiras_size,
                   jogadores_eliminados_, it, fim, vencedor, rodada, visto, elim_rodada, num_antes, chamadas, log_fim>>

\* while (jogo_ativo); iniciar_rodada(): the test num_jogadores_ < NUM_JOGADORES
\* (both are read and written by the coordinator alone)
CTopo ==
    /\ cpc = "c_topo"
    /\ IF ~jogo_ativo THEN cpc' = "c_fim" /\ UNCHANGED cit
       ELSE IF num_jogadores_ < NUM_JOGADORES THEN cpc' = "c_esvaziar" /\ cit' = 1
       ELSE cpc' = "c_parar" /\ UNCHANGED cit
    /\ UNCHANGED <<pc, sem, lido, mutex, musica_parada, jogo_ativo,
                   num_jogadores_, cadeiras_buf, cadeiras_size,
                   jogadores_eliminados_, it, fim, vencedor, rodada, visto, elim_rodada, num_antes, chamadas, log_fim>>

\* iniciar_rodada: esvaziar_cadeiras(), one turn of its loop, music_mutex not held
CEsvaziar ==
    /\ cpc = "c_esvaziar"
    /\ IF cit <= cadeiras_size
       THEN /\ cadeiras_buf' = EsvaziarPasso(cadeiras_buf, cit)
            /\ cit' = cit + 1
            /\ UNCHANGED cpc
       ELSE /\ cpc' = "c_remover"
            /\ cit' = 0
            /\ UNCHANGED cadeiras_buf
    /\ UNCHANGED <<pc, sem, lido, mutex, musica_parada, jogo_ativo,
                   num_jogadores_, cadeiras_size,
                   jogadores_eliminados_, it, fim, vencedor, rodada, visto, elim_rodada, num_antes, chamadas, log_fim>>

\* iniciar_rodada: remover_cadeira(): cadeiras_.pop_back(), music_mutex not held
CRemover ==
    /\ cpc = "c_remover"
    /\ cadeiras_size' = cadeiras_size - 1
    /\ cpc' = "c_release"
    /\ UNCHANGED <<pc, sem, lido, mutex, musica_parada, jogo_ativo,
                   num_jogadores_, cadeiras_buf,
                   jogadores_eliminados_, it, fim, cit, vencedor, rodada, visto, elim_rodada, num_antes, chamadas, log_fim>>

\* iniciar_rodada: cadeira_sem.release(num_jogadores_ - 1)
CRelease ==
    /\ cpc = "c_release"
    /\ sem' = sem + (num_jogadores_ - 1)
    /\ cpc' = "c_parar"
    /\ UNCHANGED <<pc, lido, mutex, musica_parada, jogo_ativo,
                   num_jogadores_, cadeiras_buf, cadeiras_size,
                   jogadores_eliminados_, it, fim, cit, vencedor, rodada, visto, elim_rodada, num_antes, chamadas, log_fim>>

\* parar_musica() with the body of comecar_musica(): musica_parada = false
CPararCopiado ==
    /\ cpc = "c_parar"
    /\ mutex = LIVRE
    /\ musica_parada' = FALSE
    /\ pc' = NotifyAll(pc)
    /\ cpc' = "c_poll1"
    /\ rodada' = rodada + 1
    /\ elim_rodada' = 0
    /\ num_antes' = num_jogadores_
    /\ UNCHANGED <<sem, lido, mutex, jogo_ativo,
                   num_jogadores_, cadeiras_buf, cadeiras_size,
                   jogadores_eliminados_, it, fim, cit, vencedor, visto, chamadas, log_fim>>

\* sleep_for(distrib(gen)*1000) is any delay, zero included: no step.
\* parar_musica(): lock; musica_parada = true; notify_all; unlock
CParar ==
    /\ cpc = "c_parar"
    /\ mutex = LIVRE
    /\ musica_parada' = TRUE
    /\ pc' = NotifyAll(pc)
    /\ cpc' = "c_poll1"
    /\ rodada' = rodada + 1
    /\ elim_rodada' = 0
    /\ num_antes' = num_jogadores_
    /\ UNCHANGED <<sem, lido, mutex, jogo_ativo,
                   num_jogadores_, cadeiras_buf, cadeiras_size,
                   jogadores_eliminados_, it, fim, cit, vencedor, visto, chamadas, log_fim>>

\* cadeira_sem.try_acquire(), first half: the counter is loaded; 0 returns false
CPollLoad(de, cas, sai) ==
    /\ cpc = de
    /\ IF sem = 0
       THEN cpc' = sai /\ UNCHANGED lido
       ELSE cpc' = cas /\ lido' = sem
    /\ UNCHANGED <<pc, sem, mutex, musica_parada, jogo_ativo,
                   num_jogadores_, cadeiras_buf, cadeiras_size,
                   jogadores_eliminados_, it, fim, cit, vencedor, rodada, visto, elim_rodada, num_antes, chamadas, log_fim>>

\* cadeira_sem.try_acquire(), second half: one compare-and-exchange of the
\* value loaded with that value less one.  It fails, and try_acquire returns
\* false with the counter positive, when an acquire() came in between:
\* [thread.sema.cnt] allows try_acquire to fail to decrement a positive counter.
CPollCas(de, solta, sai) ==
    /\ cpc = de
    /\ IF sem = lido
       THEN sem' = sem - 1 /\ cpc' = solta
       ELSE UNCHANGED sem /\ cpc' = sai
    /\ lido' = 0
    /\ UNCHANGED <<pc, mutex, musica_parada, jogo_ativo,
                   num_jogadores_, cadeiras_buf, cadeiras_size,
                   jogadores_eliminados_, it, fim, cit, vencedor, rodada, visto, elim_rodada, num_antes, chamadas, log_fim>>

\* { cadeira_sem.release(); sleep_for(50ms); }: the body of either settle loop
CPollRelease(de, volta) ==
    /\ cpc = de
    /\ sem' = sem + 1
    /\ cpc' = volta
    /\ UNCHANGED <<pc, lido, mutex, musica_parada, jogo_ativo,
                   num_jogadores_, cadeiras_buf, cadeiras_size,
                   jogadores_eliminados_, it, fim, cit, vencedor, rodada, visto, elim_rodada, num_antes, chamadas, log_fim>>

\* first settle loop: "Aguarda os jogadores se sentarem"
CPoll1Load == CPollLoad("c_poll1", "c_poll1_cas", "c_eliminar")

CPoll1Cas == CPollCas("c_poll1_cas", "c_poll1_rel", "c_eliminar")

CPoll1Release == CPollRelease("c_poll1_rel", "c_poll1")

\* eliminar_jogador(): --num_jogadores_ (read by the coordinator alone);
\* liberar_threads_eliminadas(): cadeira_sem.release()
CEliminar ==
    /\ cpc = "c_eliminar"
    /\ num_jogadores_' = num_jogadores_ - 1
    /\ sem' = sem + 1
    /\ cpc' = "c_poll2"
    /\ UNCHANGED <<pc, lido, mutex, musica_parada, jogo_ativo,
                   cadeiras_buf, cadeiras_size,
                   jogadores_eliminados_, it, fim, cit, vencedor, rodada, visto, elim_rodada, num_antes, chamadas, log_fim>>

\* second settle loop: "Aguarda o jogador ser eliminado"
CPoll2Load == CPollLoad("c_poll2", "c_poll2_cas", "c_exibir")

CPoll2Cas == CPollCas("c_poll2_cas", "c_poll2_rel", "c_exibir")

CPoll2Release == CPollRelease("c_poll2_rel", "c_poll2")

\* exibir_estado(): reads every seat and jogadores_eliminados_.back(), music_mutex
\* not held.  back() of an empty vector has undefined behaviour; this vector has
\* never allocated, so back() reads through a null pointer: the process dies,
\* and every thread with it.
CExibir ==
    /\ cpc = "c_exibir"
    /\ IF jogadores_eliminados_ = <<>>
       THEN cpc' = "c_morto" /\ pc' = [p \in Jogadores |-> "morto"]
       ELSE cpc' = "c_checar" /\ UNCHANGED pc
    /\ UNCHANGED <<sem, lido, mutex, musica_parada, jogo_ativo,
                   num_jogadores_, cadeiras_buf, cadeiras_size,
                   jogadores_eliminados_, it, fim, cit, vencedor, rodada, visto, elim_rodada, num_antes, chamadas, log_fim>>

\* if (get_num_jogadores() == 1) jogo_ativo = false;
CChecar ==
    /\ cpc = "c_checar"
    /\ IF num_jogadores_ = 1
       THEN jogo_ativo' = FALSE /\ cpc' = "c_vencedor"
       ELSE UNCHANGED jogo_ativo /\ cpc' = "c_comecar"
    /\ UNCHANGED <<pc, sem, lido, mutex, musica_parada,
                   num_jogadores_, cadeiras_buf, cadeiras_size,
                   jogadores_eliminados_, it, fim, cit, vencedor, rodada, visto, elim_rodada, num_antes, chamadas, log_fim>>

\* get_id_vencedor(): cadeiras_[0].get_id_jogador(), music_mutex not held
CVencedor ==
    /\ cpc = "c_vencedor"
    /\ vencedor' = cadeiras_buf[1]
    /\ cpc' = "c_comecar"
    /\ UNCHANGED <<pc, sem, lido, mutex, musica_parada, jogo_ativo,
                   num_jogadores_, cadeiras_buf, cadeiras_size,
                   jogadores_eliminados_, it, fim, cit, rodada, visto, elim_rodada, num_antes, chamadas, log_fim>>

\* comecar_musica(): lock; musica_parada = false; notify_all; unlock
CComecar ==
    /\ cpc = "c_comecar"
    /\ mutex = LIVRE
    /\ musica_parada' = FALSE
    /\ pc' = NotifyAll(pc)
    /\ cpc' = "c_topo"
    /\ UNCHANGED <<sem, lido, mutex, jogo_ativo,
                   num_jogadores_, cadeiras_buf, cadeiras_size,
                   jogadores_eliminados_, it, fim, cit, vencedor, rodada, visto, elim_rodada, num_antes, chamadas, log_fim>>

\* the steps of the coordinator
CoordenadorPasso ==
    \/ CTopo
    \/ CEsvaziar
    \/ CRemover
    \/ CRelease
    \/ CParar
    \/ CPoll1Load
    \/ CPoll1Cas
    \/ CPoll1Release
    \/ CEliminar
    \/ CPoll2Load
    \/ CPoll2Cas
    \/ CPoll2Release
    \/ CExibir
    \/ CChecar
    \/ CVencedor
    \/ CComecar

----------------------------------------------------------------------------
(* The program: the threads interleave                                     *)

Next ==
    \/ CTopo
    \/ CEsvaziar
    \/ CRemover
    \/ CRelease
    \/ CParar
    \/ CPoll1Load
    \/ CPoll1Cas
    \/ CPoll1Release
    \/ CEliminar
    \/ CPoll2Load
    \/ CPoll2Cas
    \/ CPoll2Release
    \/ CExibir
    \/ CChecar
    \/ CVencedor
    \/ CComecar
    \/ \E p \in Jogadores : Topo(p)
    \/ \E p \in Jogadores : EsperaParar(p)
    \/ \E p \in Jogadores : Acquire(p)
    \/ \E p \in Jogadores : LockPegar(p)
    \/ \E p \in Jogadores : PegarPasso(p)
    \/ \E p \in Jogadores : EsperaTocar(p)
    \/ \E p \in Jogadores : AddCarrega(p)
    \/ \E p \in Jogadores : AddEliminado(p)
    \/ \E p \in Jogadores : AcordaEspurio(p)

Spec == Init /\ [][Next]_vars

\* Every thread that can run does run (the scheduler is weakly fair to each
\* thread); a spurious wakeup is never owed.
FairSpec ==
    /\ Spec
    /\ WF_vars(CoordenadorPasso)
    /\ \A p \in Jogadores : WF_vars(JogadorPasso(p))

\* cadeira_sem never passes its max() = NUM_JOGADORES: no release() of the
\* program breaks the precondition of std::counting_semaphore::release
SemDentroDoMax == sem <= NUM_JOGADORES

----------------------------------------------------------------------------
(* Sequential specification of esvaziar_cadeiras: any seat vector of up to *)
(* MaxCadeiras seats with any occupants, in a game with the threads at     *)
(* rest; the only step is a call of esvaziar_cadeiras run to its end       *)

Vetores(n) == [1..n -> 0..NUM_JOGADORES]

Logs == UNION {[1..n -> Jogadores] : n \in 0..MaxEliminados}

InitEsvaziar ==
    /\ pc = [p \in Jogadores |-> "fim"]
    /\ cpc = "c_esvaziar"
    /\ sem = 0
    /\ lido = 0
    /\ mutex = LIVRE
    /\ musica_parada = FALSE
    /\ jogo_ativo = TRUE
    /\ \E n \in 0..MaxCadeiras :
          /\ cadeiras_size = n
          /\ cadeiras_buf \in Vetores(n)
          /\ num_jogadores_ = n + 1
    /\ jogadores_eliminados_ \in Logs
    /\ it = 0
    /\ fim = 0
    /\ cit = 0
    /\ vencedor = -1
    /\ rodada = 0
    /\ visto = [p \in Jogadores |-> 0]
    /\ elim_rodada = 0
    /\ num_antes = NUM_JOGADORES
    /\ chamadas = 0
    /\ log_fim = [p \in Jogadores |-> 0]

\* one call of esvaziar_cadeiras() with no other thread running
ChamaEsvaziar ==
    /\ chamadas < 2
    /\ chamadas' = chamadas + 1
    /\ cadeiras_buf' = esvaziar_cadeiras(cadeiras_buf, cadeiras_size)
    /\ UNCHANGED <<pc, cpc, sem, lido, mutex, musica_parada, jogo_ativo,
                   num_jogadores_, cadeiras_size, jogadores_eliminados_,
                   it, fim, cit, vencedor, rodada, visto, elim_rodada, num_antes,
                   log_fim>>

NextEsvaziar == ChamaEsvaziar

SpecEsvaziar == InitEsvaziar /\ [][NextEsvaziar]_vars

----------------------------------------------------------------------------
(* Claims                                                                  *)

\* the players that have taken the elimination branch of joga
NoRamoEliminado == {p \in Jogadores : pc[p] \in {"add", "add_guarda", "eliminado"}}

\* the coordinator is inside iniciar_rodada() of a round after the first
EmIniciarRodada == cpc \in {"c_esvaziar", "c_remover", "c_release"}

\* C1: in every round, from parar_musica to the next comecar_musica, exactly
\* one player takes the elimination branch, and num_jogadores_ ends the round
\* one below its value at the start of the round.
C1_UmEliminadoPorRodada ==
    [][cpc = "c_comecar" /\ cpc' = "c_topo"
        => elim_rodada = 1 /\ num_jogadores_ = num_antes - 1]_vars

\* C2: under weak fairness of every thread, every player thread eventually
\* terminates (eliminated or seeing jogo_ativo false), unless the process dies.
C2_TodosTerminam ==
    <>(\A p \in Jogadores : pc[p] \in {"eliminado", "fim", "morto"})

\* C3: the value get_id_vencedor() returns at the end of the game is a player
\* id (never the sentinel 0), that player never takes the elimination branch,
\* and no other player leaves the game as a survivor.
C3_VencedorSobrevivente ==
    vencedor # -1 =>
        /\ vencedor \in Jogadores
        /\ vencedor \notin NoRamoEliminado
        /\ \A q \in Jogadores \ {vencedor} : pc[q] # "fim"

\* C4: the counter of cadeira_sem is always between 0 and the number of seats,
\* which is at most NUM_JOGADORES - 1.
C4_SemAteCadeiras ==
    /\ 0 <= sem
    /\ sem <= cadeiras_size
    /\ cadeiras_size <= NUM_JOGADORES - 1

\* C5: a player leaves the wait for the music to stop only with musica_parada
\* true and the wait for the music to restart only with musica_parada false;
\* a wakeup (notify_all or spurious) that finds the phase unchanged leaves it in
\* the wait loop.
C5_ImuneAcordarEspurio ==
    [][\A p \in Jogadores :
        /\ (pc[p] \in {"lock_parar", "wait_parar", "relock_parar"} /\ pc'[p] = "acquire"
              => musica_parada)
        /\ (pc[p] \in {"lock_tocar", "wait_tocar", "relock_tocar"} /\ pc'[p] = "topo"
              => ~musica_parada)
        /\ (pc[p] \in {"wait_parar", "relock_parar"} /\ ~musica_parada
              => pc'[p] \in {"wait_parar", "relock_parar", "morto"})
        /\ (pc[p] \in {"wait_tocar", "relock_tocar"} /\ musica_parada
              => pc'[p] \in {"wait_tocar", "relock_tocar", "morto"})]_vars

\* C5 witness: wait() has returned to a player by a wakeup while the phase it
\* waits out is unchanged (the music still plays): its next step tests again.
C5_Acordado ==
    \E p \in Jogadores : pc[p] = "relock_parar" /\ ~musica_parada

\* C6: a second call of esvaziar_cadeiras() changes nothing: after either call
\* every seat holds 0, and the number of seats, num_jogadores_ and
\* jogadores_eliminados_ are as before the call.
C6_EsvaziarIdempotente ==
    [][chamadas' = chamadas + 1 =>
        /\ \A i \in 1..Len(cadeiras_') : cadeiras_'[i] = 0
        /\ (chamadas = 1 => cadeiras_buf' = cadeiras_buf)
        /\ cadeiras_size' = cadeiras_size
        /\ num_jogadores_' = num_jogadores_
        /\ jogadores_eliminados_' = jogadores_eliminados_]_vars

\* C6 witness: esvaziar_cadeiras() has run twice on a vector of MaxCadeiras seats
C6_DuasChamadas == chamadas = 2 /\ cadeiras_size = MaxCadeiras

\* C7: when the coordinator reads the seats (exibir_estado, get_id_vencedor),
\* no player holds a permit of cadeira_sem without having finished pegar_cadeira.
C7_LeituraAposPegar ==
    [][(CExibir \/ CVencedor)
        => (\A p \in Jogadores : pc[p] \notin {"lock_pegar", "pegar"})]_vars

\* C8: a player waiting for the music to restart never misses the Playing
\* phase: the music is never stopped again while a player is still in the
\* wait of the round before.
C8_NaoPerdeFase ==
    [][~musica_parada /\ musica_parada' =>
        \A p \in Jogadores : pc[p] \notin {"wait_tocar", "relock_tocar"}]_vars

\* C9: every acquire() that succeeds and every step of pegar_cadeira happens
\* with musica_parada true, in the Stopped phase the player saw before racing.
C9_PegaComMusicaParada ==
    [][\A p \in Jogadores :
        pc[p] \in {"acquire", "pegar"} /\ (pc'[p] \notin {pc[p], "morto"} \/ it' # it)
            => musica_parada /\ visto[p] = rodada]_vars

\* C10: while the coordinator runs iniciar_rodada() of a round after the first,
\* no player is at cadeira_sem.acquire() still, and none is between its
\* acquire() and the end of its pegar_cadeira().
C10_RodadaSemRetardatarios ==
    EmIniciarRodada =>
        \A p \in Jogadores : pc[p] \notin {"acquire", "lock_pegar", "pegar"}

\* C11: when the coordinator reads the elimination log in exibir_estado of
\* round k, the log is non-empty, has exactly k entries, and
\* num_jogadores_ = NUM_JOGADORES - Len(jogadores_eliminados_).
C11_LogCompletoAoExibir ==
    [][CExibir =>
        /\ jogadores_eliminados_ # <<>>
        /\ Len(jogadores_eliminados_) = rodada
        /\ num_jogadores_ = NUM_JOGADORES - Len(jogadores_eliminados_)]_vars

\* C12: the coordinator's last comecar_musica comes before it sets jogo_ativo
\* to false: every write musica_parada = false happens with jogo_ativo true.
C12_ComecarAntesDoFim ==
    [][(musica_parada /\ ~musica_parada') => jogo_ativo]_vars

\* C12 as amended: jogo_ativo is set to false while the music is stopped and
\* stays false; after it the coordinator never stops the music again, and when
\* it leaves its loop the music plays (the last comecar_musica came after the
\* write of jogo_ativo).
C12_FimAntesDoUltimoComecar ==
    [][/\ (jogo_ativo /\ ~jogo_ativo') => musica_parada
       /\ ~jogo_ativo => ~jogo_ativo'
       /\ ~jogo_ativo => ~(~musica_parada /\ musica_parada')
       /\ (cpc # "c_fim" /\ cpc' = "c_fim") => (~jogo_ativo' /\ ~musica_parada')]_vars

\* C12 witness: the game is over and the coordinator has left its loop after
\* the last comecar_musica
C12_CoordenadorSaiu == cpc = "c_fim" /\ ~jogo_ativo /\ ~musica_parada

\* C13: once jogo_ativo is false no player is left blocked for ever: when the
\* coordinator has returned from iniciar_jogo (nothing will release a permit or
\* stop the music again), no player is blocked in acquire() with no permit
\* left and none is in the wait for the music to stop.
C13_NinguemPresoAposFim ==
    cpc = "c_fim" =>
        \A p \in Jogadores :
            /\ ~(pc[p] = "acquire" /\ sem = 0)
            /\ pc[p] \notin {"lock_parar", "wait_parar", "relock_parar"}

\* C14: the operations on the game state exclude one another: the coordinator
\* performs no access of esvaziar_cadeiras, remover_cadeira, exibir_estado or
\* get_id_vencedor while a player is inside pegar_cadeira.
C14_ExclusaoMutua ==
    [][(CEsvaziar \/ CRemover \/ CExibir \/ CVencedor)
        => (\A p \in Jogadores : pc[p] # "pegar")]_vars

\* C15: musica_parada is written only by the coordinator, in parar_musica and
\* comecar_musica, and every write changes it: parar_musica finds it false and
\* leaves it true, comecar_musica finds it true and leaves it false, so the
\* phases alternate Playing, Stopped, Playing, ... from the initial Playing.
C15_FasesAlternam ==
    [][/\ CParar => (~musica_parada /\ musica_parada')
       /\ CComecar => (musica_parada /\ ~musica_parada')
       /\ (musica_parada' # musica_parada) => (CParar \/ CComecar)]_vars

\* C15 witness: the phase is Stopped for the second time (Playing, Stopped,
\* Playing, Stopped)
C15_SegundaParada == rodada = 2 /\ musica_parada

\* C16: elimination is terminal and never doubled: a player that has appended
\* its id takes no further step of joga, and jogadores_eliminados_ changes only
\* by the append of an id it does not hold yet (entries are never changed or
\* removed).
C16_EliminacaoTerminal ==
    [][/\ \A p \in Jogadores :
            pc[p] = "eliminado" => pc'[p] \in {"eliminado", "morto"}
       /\ \/ jogadores_eliminados_' = jogadores_eliminados_
          \/ \E id \in Jogadores :
                /\ \A i \in 1..Len(jogadores_eliminados_) :
                        jogadores_eliminados_[i] # id
                /\ jogadores_eliminados_' = Append(jogadores_eliminados_, id)]_vars

\* C17: when iniciar_rodada() returns, in the first round as in the others,
\* the counter of cadeira_sem equals the number of seats, which equals
\* num_jogadores_ - 1 and is at least 1.
C17_PermissoesIgualCadeiras ==
    [][(CRelease \/ (CTopo /\ cpc' = "c_parar")) =>
        /\ sem' = cadeiras_size'
        /\ cadeiras_size' = num_jogadores_' - 1
        /\ cadeiras_size' >= 1]_vars

\* C18: no player id is in two seats of cadeiras_, and no id that is in
\* jogadores_eliminados_ is in a seat.
C18_UmaCadeiraPorJogador ==
    /\ \A i, j \in 1..cadeiras_size :
          (i # j /\ cadeiras_[i] # 0) => cadeiras_[i] # cadeiras_[j]
    /\ \A i \in 1..cadeiras_size :
          \A k \in 1..Len(jogadores_eliminados_) :
              cadeiras_[i] # jogadores_eliminados_[k]

\* C19: when the coordinator stops the music (parar_musica), in any round,
\* every seat of cadeiras_ holds 0.
C19_CadeirasVaziasAoParar ==
    [][CParar => (\A i \in 1..cadeiras_size : cadeiras_[i] = 0)]_vars

====
